---- MODULE Spec2Model ----
(***************************************************************************)
(* Step recording and playback of the sorting visualizations               *)
(* (haydarkadioglu/sorting-algorithms).                                    *)
(*                                                                         *)
(* Part 1 models the three sort engines (quicksort.py, mergesort.py,       *)
(* selectionsort.py: add_step and sort_algorithm) as operators over an     *)
(* engine state `st`:                                                      *)
(*   st.heap   the Python list objects of the run; heap[ArrRef] is the     *)
(*             working list `arr` (temp_array of generate_steps), every    *)
(*             other entry is a list made by array.copy() in add_step      *)
(*   st.steps  self.steps; a step's 'array' field is a reference into heap *)
(*   st.tag    ghost: tag[p] is the input index of the element now at      *)
(*             position p of arr (ints carry no identity in Python)        *)
(*   st.fuel   number of primitive operations (add_step call or list       *)
(*             write) still to be executed; Unlimited runs to the end.     *)
(*             Running with fuel k yields the program state after the      *)
(*             k-th primitive, which is how the stepwise run is observed.  *)
(*   st.count  primitives executed so far                                  *)
(* Indices in metadata and descriptions are Python's (0-based).            *)
(* Part 2 models the playback controller (base_algorithm.py and the        *)
(* overrides, which are textually the same in the three engine files).     *)
(***************************************************************************)
EXTENDS Integers, Sequences, FiniteSets, TLC

\* ---------------------------------------------------------------- bounds
MinLen == 3
MaxLen == 4
MaxVal == 3
MaxPending == 2

\* ------------------------------------------------------- Python helpers
None == <<>>
ArrRef == 1
Unlimited == -1

At(a, i) == a[i + 1]

Arr(st) == st.heap[ArrRef]

Range0(n) == [p \in 1..n |-> p - 1]

\* arr[lo:hi], a new list of the items at lo .. hi-1
list_slice(a, lo, hi) == [p \in 1..(hi - lo) |-> a[lo + p]]

\* array.copy() made to alias the list it should copy
list_copy_alias(heap, ref) == [heap |-> heap, ref |-> ref]

\* array.copy(): a new list object with the same items
list_copy(heap, ref) == [heap |-> Append(heap, heap[ref]), ref |-> Len(heap) + 1]

Spend(st) == [st EXCEPT !.fuel = IF @ > 0 THEN @ - 1 ELSE @, !.count = @ + 1]

\* self.steps.append(step_data)
steps_append(st, step_data) == Spend([st EXCEPT !.steps = Append(@, step_data)])

\* the exchange written as two assignments: arr[i] = arr[j]; arr[j] = arr[i]
list_swap_overwrite(st, i, j) ==
    IF st.fuel = 0 THEN st
    ELSE Spend([st EXCEPT !.heap[ArrRef][i + 1] = Arr(st)[j + 1],
                          !.tag[i + 1] = st.tag[j + 1]])

\* arr[i], arr[j] = arr[j], arr[i]
list_swap(st, i, j) ==
    IF st.fuel = 0 THEN st
    ELSE LET a == Arr(st)
             t == st.tag
         IN Spend([st EXCEPT
                !.heap[ArrRef] = [a EXCEPT ![i + 1] = a[j + 1], ![j + 1] = a[i + 1]],
                !.tag = [t EXCEPT ![i + 1] = t[j + 1], ![j + 1] = t[i + 1]]])

\* arr[k] = v   (v carries ghost tag g)
list_setitem(st, k, v, g) ==
    IF st.fuel = 0 THEN st
    ELSE Spend([st EXCEPT !.heap[ArrRef][k + 1] = v, !.tag[k + 1] = g])

\* the engine state on entry of sort_algorithm(temp_array)
EngineInit(a, fuel) ==
    [heap |-> <<a>>, tag |-> Range0(Len(a)), steps |-> <<>>, fuel |-> fuel, count |-> 0]

\* ------------------------------------------------------------ quicksort
QuickSort_add_step(st, pivot_idx, comparing_indices, left_part, right_part, description) ==
    IF st.fuel = 0 THEN st
    ELSE LET c == list_copy(st.heap, ArrRef)
         IN steps_append([st EXCEPT !.heap = c.heap],
                [array |-> c.ref,
                 pivot_idx |-> pivot_idx,
                 comparing_indices |-> comparing_indices,
                 left_part |-> left_part,
                 right_part |-> right_part,
                 description |-> description])

\* an element equal to the pivot left on the right of it
QuickSort_goes_left_strict(value, pivot) == value < pivot

\* if arr[j] <= pivot
QuickSort_goes_left(value, pivot) == value <= pivot

RECURSIVE QuickSort_partition_loop(_, _, _, _, _, _)

\* the loop body after its "Comparing" step s1: if arr[j] <= pivot: ...
QuickSort_partition_compare(s1, pivot, pivot_idx, high, i, j) ==
    IF QuickSort_goes_left(At(Arr(s1), j), pivot)
    THEN IF i + 1 # j
         THEN QuickSort_partition_loop(
                  QuickSort_add_step(
                      list_swap(
                          QuickSort_add_step(s1, pivot_idx, <<i + 1, j>>, None, None,
                              <<"Swapping: {} <-> {}", At(Arr(s1), i + 1), At(Arr(s1), j)>>),
                          i + 1, j),
                      pivot_idx, <<>>, None, None, <<"Swap completed">>),
                  pivot, pivot_idx, high, i + 1, j + 1)
         ELSE QuickSort_partition_loop(s1, pivot, pivot_idx, high, i + 1, j + 1)
    ELSE QuickSort_partition_loop(s1, pivot, pivot_idx, high, i, j + 1)

\* for j in range(low, high): ...   (j the loop variable, i the boundary);
\* returns the state and i after the loop
QuickSort_partition_loop(st, pivot, pivot_idx, high, i, j) ==
    IF j >= high THEN [st |-> st, i |-> i]
    ELSE QuickSort_partition_compare(
             QuickSort_add_step(st, pivot_idx, <<j>>, None, None,
                 <<"Comparing: {} <= {}?", At(Arr(st), j), pivot>>),
             pivot, pivot_idx, high, i, j)

\* partition after its loop (lp): the pivot goes to i + 1; returns [st, pi]
QuickSort_partition_place(lp, low, high, pivot_idx) ==
    [st |-> QuickSort_add_step(
                IF lp.i + 1 # high
                THEN list_swap(
                         QuickSort_add_step(lp.st, pivot_idx, <<lp.i + 1>>, None, None,
                             <<"Place pivot in correct position">>),
                         lp.i + 1, high)
                ELSE lp.st,
                lp.i + 1, <<>>,
                IF lp.i >= low THEN <<low, lp.i>> ELSE None,
                IF lp.i + 2 <= high THEN <<lp.i + 2, high>> ELSE None,
                <<"Partition completed. Pivot position: {}", lp.i + 1>>),
     pi |-> lp.i + 1]

QuickSort_partition(st, low, high) ==
    QuickSort_partition_place(
        QuickSort_partition_loop(
            QuickSort_add_step(st, high, <<>>, None, None,
                <<"Pivot selected: {} (index: {})", At(Arr(st), high), high>>),
            At(Arr(st), high), high, high, low - 1, low),
        low, high, high)

RECURSIVE QuickSort_quicksort(_, _, _)

\* quicksort after the left side is sorted (s2): if pi + 1 < high: ...
QuickSort_quicksort_right(s2, pi, high) ==
    IF pi + 1 < high
    THEN QuickSort_quicksort(
             QuickSort_add_step(s2, -1, <<>>, None, <<pi + 1, high>>,
                 <<"Sort right side: [{}, {}]", pi + 1, high>>),
             pi + 1, high)
    ELSE s2

\* quicksort after pi = partition(...) (p): if low < pi - 1: ...
QuickSort_quicksort_left(p, low, high) ==
    QuickSort_quicksort_right(
        IF low < p.pi - 1
        THEN QuickSort_quicksort(
                 QuickSort_add_step(p.st, -1, <<>>, <<low, p.pi - 1>>, None,
                     <<"Sort left side: [{}, {}]", low, p.pi - 1>>),
                 low, p.pi - 1)
        ELSE p.st,
        p.pi, high)

QuickSort_quicksort(st, low, high) ==
    IF low < high
    THEN QuickSort_quicksort_left(
             QuickSort_partition(
                 QuickSort_add_step(st, -1, <<>>, None, None,
                     <<"Quick Sort - Range: [{}, {}]", low, high>>),
                 low, high),
             low, high)
    ELSE st

QuickSort_sort_algorithm(st) ==
    QuickSort_add_step(
        QuickSort_quicksort(
            QuickSort_add_step(st, -1, <<>>, None, None,
                <<"Initial state - Quick Sort algorithm starting">>),
            0, Len(Arr(st)) - 1),
        -1, <<>>, None, None, <<"Sorting completed!">>)

\* ----------------------------------------------------------- merge sort
MergeSort_add_step(st, left_subarray, right_subarray, merging_range, comparing_indices, description) ==
    IF st.fuel = 0 THEN st
    ELSE LET c == list_copy(st.heap, ArrRef)
         IN steps_append([st EXCEPT !.heap = c.heap],
                [array |-> c.ref,
                 left_subarray |-> left_subarray,
                 right_subarray |-> right_subarray,
                 merging_range |-> merging_range,
                 comparing_indices |-> comparing_indices,
                 description |-> description])

\* the merge places the right candidate first on a tie
MergeSort_takes_left_strict(l, r) == l < r

\* the merge takes the larger candidate first
MergeSort_takes_left_reversed(l, r) == l >= r

\* if left_arr[i] <= right_arr[j]
MergeSort_takes_left(l, r) == l <= r

RECURSIVE MergeSort_merge_loop(_, _, _, _, _)

\* the loop body after its "Comparing" step s1: the smaller candidate is placed
MergeSort_merge_place(s1, m, i, j, k) ==
    IF MergeSort_takes_left(At(m.left_arr, i), At(m.right_arr, j))
    THEN MergeSort_merge_loop(
             MergeSort_add_step(
                 list_setitem(s1, k, At(m.left_arr, i), At(m.left_tag, i)),
                 None, None, <<m.left, m.right>>, <<>>,
                 <<"Placed {} at position {}", At(m.left_arr, i), k>>),
             m, i + 1, j, k + 1)
    ELSE MergeSort_merge_loop(
             MergeSort_add_step(
                 list_setitem(s1, k, At(m.right_arr, j), At(m.right_tag, j)),
                 None, None, <<m.left, m.right>>, <<>>,
                 <<"Placed {} at position {}", At(m.right_arr, j), k>>),
             m, i, j + 1, k + 1)

\* while i < len(left_arr) and j < len(right_arr): ...
\* m holds the locals of merge that the loops do not change
MergeSort_merge_loop(st, m, i, j, k) ==
    IF i < Len(m.left_arr) /\ j < Len(m.right_arr)
    THEN MergeSort_merge_place(
             MergeSort_add_step(st, None, None, <<m.left, m.right>>,
                 <<m.left + i, m.mid + 1 + j>>,
                 <<"Comparing: {} vs {} at positions {} and {}",
                   At(m.left_arr, i), At(m.right_arr, j), m.left + i, m.mid + 1 + j>>),
             m, i, j, k)
    ELSE [st |-> st, i |-> i, j |-> j, k |-> k]

RECURSIVE MergeSort_copy_left(_, _, _, _)
\* while i < len(left_arr): ...
MergeSort_copy_left(st, m, i, k) ==
    IF i < Len(m.left_arr)
    THEN MergeSort_copy_left(
             MergeSort_add_step(
                 list_setitem(st, k, At(m.left_arr, i), At(m.left_tag, i)),
                 None, None, <<m.left, m.right>>, <<>>,
                 <<"Copying remaining left element: {} to position {}", At(m.left_arr, i), k>>),
             m, i + 1, k + 1)
    ELSE [st |-> st, k |-> k]

RECURSIVE MergeSort_copy_right(_, _, _, _)
\* while j < len(right_arr): ...
MergeSort_copy_right(st, m, j, k) ==
    IF j < Len(m.right_arr)
    THEN MergeSort_copy_right(
             MergeSort_add_step(
                 list_setitem(st, k, At(m.right_arr, j), At(m.right_tag, j)),
                 None, None, <<m.left, m.right>>, <<>>,
                 <<"Copying remaining right element: {} to position {}", At(m.right_arr, j), k>>),
             m, j + 1, k + 1)
    ELSE [st |-> st, k |-> k]

\* merge after the copy of the left rest (cl): the right rest, then the last step
MergeSort_merge_finish(cl, m, j) ==
    MergeSort_add_step(MergeSort_copy_right(cl.st, m, j, cl.k).st,
        None, None, <<m.left, m.right>>, <<>>,
        <<"Merge completed for range [{}:{}]", m.left, m.right>>)

\* merge after its first loop (w): the rests of the two buffers
MergeSort_merge_rest(w, m) ==
    MergeSort_merge_finish(MergeSort_copy_left(w.st, m, w.i, w.k), m, w.j)

\* merge once its buffers are taken (m)
MergeSort_merge_buffers(st, m) ==
    MergeSort_merge_rest(
        MergeSort_merge_loop(
            MergeSort_add_step(st, <<m.left, m.mid>>, <<m.mid + 1, m.right>>, None, <<>>,
                <<"Created temp arrays: Left{}, Right{}", m.left_arr, m.right_arr>>),
            m, 0, 0, m.left),
        m)

MergeSort_merge(st, left, mid, right) ==
    MergeSort_merge_buffers(st,
        [left_arr |-> list_slice(Arr(st), left, mid + 1),
         right_arr |-> list_slice(Arr(st), mid + 1, right + 1),
         left_tag |-> list_slice(st.tag, left, mid + 1),
         right_tag |-> list_slice(st.tag, mid + 1, right + 1),
         left |-> left, mid |-> mid, right |-> right])

\* the middle taken one position lower on ranges of odd length
MergeSort_mid_low(left, right) == (left + right - 1) \div 2

\* mid = (left + right) // 2
MergeSort_mid(left, right) == (left + right) \div 2

RECURSIVE MergeSort_merge_sort_recursive(_, _, _)
MergeSort_merge_sort_recursive(st, left, right) ==
    IF left < right
    THEN LET mid == MergeSort_mid(left, right)
             s1 == MergeSort_add_step(st, <<left, mid>>, <<mid + 1, right>>, None, <<>>,
                        <<"Dividing array: Left[{}:{}], Right[{}:{}]", left, mid, mid + 1, right>>)
             s2 == MergeSort_add_step(s1, <<left, mid>>, None, None, <<>>,
                        <<"Sorting left subarray: [{}:{}]", left, mid>>)
             s3 == MergeSort_merge_sort_recursive(s2, left, mid)
             s4 == MergeSort_add_step(s3, None, <<mid + 1, right>>, None, <<>>,
                        <<"Sorting right subarray: [{}:{}]", mid + 1, right>>)
             s5 == MergeSort_merge_sort_recursive(s4, mid + 1, right)
             s6 == MergeSort_add_step(s5, <<left, mid>>, <<mid + 1, right>>, None, <<>>,
                        <<"Merging sorted subarrays: [{}:{}] and [{}:{}]", left, mid, mid + 1, right>>)
         IN MergeSort_merge(s6, left, mid, right)
    ELSE st

MergeSort_sort_algorithm(st) ==
    LET s1 == MergeSort_add_step(st, None, None, None, <<>>,
                    <<"Initial state - Merge Sort algorithm starting">>)
        s2 == MergeSort_merge_sort_recursive(s1, 0, Len(Arr(s1)) - 1)
    IN MergeSort_add_step(s2, None, None, None, <<>>,
            <<"Merge Sort completed! Array is now fully sorted">>)

\* ------------------------------------------------------- selection sort
SelectionSort_add_step(st, current_position, minimum_index, comparing_index, sorted_indices, description) ==
    IF st.fuel = 0 THEN st
    ELSE LET c == list_copy(st.heap, ArrRef)
         IN steps_append([st EXCEPT !.heap = c.heap],
                [array |-> c.ref,
                 current_position |-> current_position,
                 minimum_index |-> minimum_index,
                 comparing_index |-> comparing_index,
                 sorted_indices |-> sorted_indices,
                 description |-> description])

\* a candidate equal to the current minimum taken as the new minimum
SelectionSort_is_new_minimum_on_tie(candidate, minimum) == candidate <= minimum

\* if arr[j] < arr[min_idx]
SelectionSort_is_new_minimum(candidate, minimum) == candidate < minimum

RECURSIVE SelectionSort_inner_loop(_, _, _, _, _, _)

\* the inner loop body after its "Comparing" step s1: if arr[j] < arr[min_idx]: ...
SelectionSort_inner_compare(s1, n, i, sorted_indices, min_idx, j) ==
    IF SelectionSort_is_new_minimum(At(Arr(s1), j), At(Arr(s1), min_idx))
    THEN SelectionSort_inner_loop(
             SelectionSort_add_step(s1, i, j, j, sorted_indices,
                 <<"New minimum found! {} at position {}", At(Arr(s1), j), j>>),
             n, i, sorted_indices, j, j + 1)
    ELSE SelectionSort_inner_loop(s1, n, i, sorted_indices, min_idx, j + 1)

\* for j in range(i + 1, n): ...   returns the state and min_idx after the loop
SelectionSort_inner_loop(st, n, i, sorted_indices, min_idx, j) ==
    IF j >= n THEN [st |-> st, min_idx |-> min_idx]
    ELSE SelectionSort_inner_compare(
             SelectionSort_add_step(st, i, min_idx, j, sorted_indices,
                 <<"Comparing: {} (position {}) with current minimum {}",
                   At(Arr(st), j), j, At(Arr(st), min_idx)>>),
             n, i, sorted_indices, min_idx, j)

\* the step after the swap (b): "Swap completed"
SelectionSort_swapped(b, i, sorted_indices) ==
    SelectionSort_add_step(b, i, -1, -1, sorted_indices,
        <<"Swap completed: {} is now in position {}", At(Arr(b), i), i>>)

\* a round after its inner loop (lp): if min_idx != i: swap, else no swap
SelectionSort_place(lp, i, sorted_indices) ==
    IF lp.min_idx # i
    THEN SelectionSort_swapped(
             list_swap(
                 SelectionSort_add_step(lp.st, i, lp.min_idx, -1, sorted_indices,
                     <<"Swapping: {} (position {}) with {} (position {})",
                       At(Arr(lp.st), i), i, At(Arr(lp.st), lp.min_idx), lp.min_idx>>),
                 i, lp.min_idx),
             i, sorted_indices)
    ELSE SelectionSort_add_step(lp.st, i, -1, -1, sorted_indices,
             <<"No swap needed: {} is already the minimum", At(Arr(lp.st), i)>>)

\* the step that marks position i as sorted is recorded before the append
SelectionSort_mark_sorted_late(s3, i, sorted_indices) ==
    SelectionSort_add_step(s3, -1, -1, -1, sorted_indices,
        <<"Position {} is now sorted. Element {} is in correct place", i, At(Arr(s3), i)>>)

\* sorted_indices.append(i) and the step that marks position i as sorted
SelectionSort_mark_sorted(s3, i, sorted_indices) ==
    SelectionSort_add_step(s3, -1, -1, -1, Append(sorted_indices, i),
        <<"Position {} is now sorted. Element {} is in correct place", i, At(Arr(s3), i)>>)

RECURSIVE SelectionSort_outer_loop(_, _, _, _)
\* for i in range(n): ...
SelectionSort_outer_loop(st, n, sorted_indices, i) ==
    IF i >= n THEN st
    ELSE SelectionSort_outer_loop(
             SelectionSort_mark_sorted(
                 SelectionSort_place(
                     SelectionSort_inner_loop(
                         SelectionSort_add_step(
                             SelectionSort_add_step(st, i, i, -1, sorted_indices,
                                 <<"Round {}: Looking for minimum in unsorted part [position {} to {}]",
                                   i + 1, i, n - 1>>),
                             i, i, -1, sorted_indices,
                             <<"Assume element at position {} ({}) is minimum", i, At(Arr(st), i)>>),
                         n, i, sorted_indices, i, i + 1),
                     i, sorted_indices),
                 i, sorted_indices),
             n, Append(sorted_indices, i), i + 1)

SelectionSort_sort_algorithm(st) ==
    SelectionSort_add_step(
        SelectionSort_outer_loop(
            SelectionSort_add_step(st, -1, -1, -1, <<>>,
                <<"Initial state - Selection Sort algorithm starting">>),
            Len(Arr(st)), <<>>, 0),
        -1, -1, -1, Range0(Len(Arr(st))),
        <<"Selection Sort completed! All elements are now sorted">>)

\* ------------------------------------------------- the engines together
Algorithms == {"Quick Sort", "Merge Sort", "Selection Sort"}

\* the class attribute stable of the three engines
stable(algo) == algo = "Merge Sort"

\* self.sort_algorithm(temp_array), dispatched on the class of self
sort_algorithm(algo, st) ==
    CASE algo = "Quick Sort" -> QuickSort_sort_algorithm(st)
      [] algo = "Merge Sort" -> MergeSort_sort_algorithm(st)
      [] algo = "Selection Sort" -> SelectionSort_sort_algorithm(st)

\* the program state after the first `fuel` primitives of sort_algorithm(a.copy())
RunTo(algo, a, fuel) == sort_algorithm(algo, EngineInit(a, fuel))

\* a step record with its 'array' reference replaced by the list it refers to
Deref(heap, step) == [step EXCEPT !.array = heap[step.array]]

StepsOf(st) == [k \in 1..Len(st.steps) |-> Deref(st.heap, st.steps[k])]

\* ===================================================== playback controller
VARIABLES
    algo,             \* the class of the instance (its algorithm_name)
    array,            \* self.array: the list the chart draws
    original_array,   \* self.original_array
    steps,            \* self.steps, each 'array' a list value
    current_step,     \* self.current_step
    is_sorting,       \* self.is_sorting
    is_playing,       \* self.is_playing
    animation_speed,  \* self.animation_speed (ms)
    original_speed,   \* self.original_speed, None while the attribute is absent
    buttons,          \* state of start_btn, fast_btn, pause_btn and start_btn's text
    pending,          \* callbacks queued by parent_frame.after, not yet fired; ghost
                      \* field stale: a pause or reset was issued after its scheduling
    run,              \* engine state of the sort run in progress (NoRun outside one)
    last_cmd,         \* ghost: the handler that made the latest transition
    rendered,         \* ghost: index of the step that handler drew, -1 if none
    scheduled,        \* ghost: interval (ms) of the callback that handler queued,
                      \* -1 if none
    effects,          \* ghost: what else that handler did: "generated" (it ran
                      \* the engine), "restored" (it took back the stored speed)
    engine_calls,     \* ghost: calls of sort_algorithm since the last reset or
                      \* change of array
    user_idle         \* environment: the user issues no further command

vars == <<algo, array, original_array, steps, current_step, is_sorting, is_playing,
          animation_speed, original_speed, buttons, pending, run, last_cmd, rendered,
          scheduled, effects, engine_calls, user_idle>>

NoRun == [phase |-> "none"]

\* speed_map of on_speed_change
speed_map ==
    [p \in {"Very Slow", "Slow", "Medium", "Fast", "Very Fast"} |->
        CASE p = "Very Slow" -> 2000
          [] p = "Slow" -> 1500
          [] p = "Medium" -> 1000
          [] p = "Fast" -> 500
          [] p = "Very Fast" -> 200]

FastSpeed == 50
DefaultSpeed == 1000

\* the presets the user picks in the combobox
SpeedChoices == {"Slow", "Very Fast"}

\* arrays of MinLen..MaxLen values in 1..MaxVal: the inputs of the engine runs
Inputs == UNION {[1..n -> 1..MaxVal] : n \in MinLen..MaxLen}

\* the arrays the scenarios of the specification name
ScenarioArrays == {<<5, 2, 8, 1, 9>>, <<3, 3, 1>>}

\* arrays entered through manual_array_input (3..30 integers)
ManualArrays == {<<3, 3, 1>>}

\* arrays drawn by generate_random_array (size 5..30, values 1..100)
RandomArrays == {<<5, 2, 8, 1, 9>>}

\* the instance as a record, so that handlers compose as in the code
Self ==
    [array |-> array, original_array |-> original_array, steps |-> steps,
     current_step |-> current_step, is_sorting |-> is_sorting, is_playing |-> is_playing,
     animation_speed |-> animation_speed, original_speed |-> original_speed,
     buttons |-> buttons, pending |-> pending, rendered |-> -1,
     scheduled |-> -1, effects |-> {}, engine_calls |-> engine_calls]

\* the handler's result becomes the next state of the instance
CommitSelf(s, cmd) ==
    /\ array' = s.array
    /\ original_array' = s.original_array
    /\ steps' = s.steps
    /\ current_step' = s.current_step
    /\ is_sorting' = s.is_sorting
    /\ is_playing' = s.is_playing
    /\ animation_speed' = s.animation_speed
    /\ original_speed' = s.original_speed
    /\ buttons' = s.buttons
    /\ pending' = s.pending
    /\ rendered' = s.rendered
    /\ scheduled' = s.scheduled
    /\ effects' = s.effects
    /\ engine_calls' = s.engine_calls
    /\ last_cmd' = cmd

Commit(s, cmd) == CommitSelf(s, cmd) /\ UNCHANGED <<algo, run, user_idle>>

generate_steps(s, a) ==
    IF s.array = <<>> THEN s
    ELSE LET st == RunTo(a, s.array, Unlimited)
         IN [s EXCEPT !.steps = StepsOf(st), !.array = Arr(st),
                      !.engine_calls = @ + 1, !.effects = @ \cup {"generated"}]

show_current_step(s) ==
    IF s.steps # <<>> /\ 0 <= s.current_step /\ s.current_step < Len(s.steps)
    THEN [s EXCEPT !.array = At(s.steps, s.current_step).array,
                   !.rendered = s.current_step]
    ELSE s

\* the stored speed dropped without being taken back
restore_speed_forgets(s) ==
    IF s.original_speed # None
    THEN [s EXCEPT !.original_speed = None, !.effects = @ \cup {"restored"}]
    ELSE s

\* if hasattr(self, 'original_speed'): restore and delattr
restore_speed(s) ==
    IF s.original_speed # None
    THEN [s EXCEPT !.animation_speed = s.original_speed[1], !.original_speed = None,
                   !.effects = @ \cup {"restored"}]
    ELSE s

ButtonsPlaying(b) ==
    [b EXCEPT !.start = "disabled", !.fast = "disabled", !.pause = "normal"]

ButtonsStopped(b, text) ==
    [b EXCEPT !.start = "normal", !.start_text = text, !.fast = "normal",
              !.pause = "disabled"]

\* animate_sorting returning without queuing its next call
after_dropped(s) == s

\* parent_frame.after(self.animation_speed, self.animate_sorting)
\* the callback queued twice
after_twice(s) ==
    [s EXCEPT !.pending = Append(Append(@, [stale |-> FALSE]), [stale |-> FALSE]),
              !.scheduled = s.animation_speed]

after(s) ==
    [s EXCEPT !.pending = Append(@, [stale |-> FALSE]),
              !.scheduled = s.animation_speed]

animate_sorting(s) ==
    IF ~s.is_playing \/ s.current_step >= Len(s.steps)
    THEN IF s.current_step >= Len(s.steps)
         THEN LET s1 == restore_speed([s EXCEPT !.is_sorting = FALSE])
              IN [s1 EXCEPT !.buttons = ButtonsStopped(@, "Start")]
         ELSE s
    ELSE LET s1 == [show_current_step(s) EXCEPT !.current_step = @ + 1]
         IN IF s1.is_playing THEN after(s1) ELSE s1

\* start_sorting without the is_sorting test of its first lines
start_sorting_unguarded(s, a) ==
    LET s1 == IF s.steps = <<>> THEN generate_steps(s, a) ELSE s
        s2 == [s1 EXCEPT !.is_sorting = TRUE, !.is_playing = TRUE,
                         !.buttons = ButtonsPlaying(@)]
    IN animate_sorting(s2)

start_sorting(s, a) ==
    IF s.is_sorting THEN s
    ELSE LET s1 == IF s.steps = <<>> THEN generate_steps(s, a) ELSE s
             s2 == [s1 EXCEPT !.is_sorting = TRUE, !.is_playing = TRUE,
                              !.buttons = ButtonsPlaying(@)]
         IN animate_sorting(s2)

fast_sort(s, a) ==
    IF s.is_sorting THEN s
    ELSE IF s.array = <<>> THEN s
    ELSE LET s1 == IF s.steps = <<>> THEN generate_steps(s, a) ELSE s
             s2 == [s1 EXCEPT !.is_sorting = TRUE, !.is_playing = TRUE,
                              !.buttons = ButtonsPlaying(@),
                              !.original_speed = <<s1.animation_speed>>,
                              !.animation_speed = FastSpeed]
         IN animate_sorting(s2)

\* pause_sorting leaving is_playing set
pause_sorting_keeps_playing(s) ==
    [restore_speed(s) EXCEPT !.buttons = ButtonsStopped(@, "Resume")]

pause_sorting(s) ==
    LET s1 == restore_speed([s EXCEPT !.is_playing = FALSE])
    IN [s1 EXCEPT !.buttons = ButtonsStopped(@, "Resume")]

\* reset_sorting without the restore of self.array
reset_sorting_keeps_array(s) ==
    LET s1 == [s EXCEPT !.is_sorting = FALSE, !.is_playing = FALSE,
                        !.current_step = 0, !.steps = <<>>]
    IN [restore_speed(s1) EXCEPT !.buttons = ButtonsStopped(@, "Start")]

reset_sorting(s) ==
    LET s1 == [s EXCEPT !.is_sorting = FALSE, !.is_playing = FALSE,
                        !.current_step = 0, !.steps = <<>>,
                        !.array = s.original_array]
    IN [restore_speed(s1) EXCEPT !.buttons = ButtonsStopped(@, "Start")]

\* step_forward without the clamp at the last step
step_forward_unclamped(s, a) ==
    LET s1 == IF s.steps = <<>> THEN generate_steps(s, a) ELSE s
    IN show_current_step([s1 EXCEPT !.current_step = @ + 1])

\* step_forward generating the sequence on every call
step_forward_regenerates(s, a) ==
    LET s1 == generate_steps(s, a)
    IN IF s1.current_step < Len(s1.steps) - 1
       THEN show_current_step([s1 EXCEPT !.current_step = @ + 1])
       ELSE s1

\* step_forward without the lazy generation of its first lines
step_forward_no_generate(s, a) ==
    IF s.current_step < Len(s.steps) - 1
    THEN show_current_step([s EXCEPT !.current_step = @ + 1])
    ELSE s

step_forward(s, a) ==
    LET s1 == IF s.steps = <<>> THEN generate_steps(s, a) ELSE s
    IN IF s1.current_step < Len(s1.steps) - 1
       THEN show_current_step([s1 EXCEPT !.current_step = @ + 1])
       ELSE s1

\* step_backward without the clamp at step 0
step_backward_unclamped(s) == show_current_step([s EXCEPT !.current_step = @ - 1])

step_backward(s) ==
    IF s.current_step > 0
    THEN show_current_step([s EXCEPT !.current_step = @ - 1])
    ELSE s

\* the array replaced without discarding the steps of the one before
set_manual_array_keeps_steps(s, a) ==
    [s EXCEPT !.array = a, !.original_array = a, !.current_step = 0]

\* generate_random_array and set_manual_array store the array the same way
set_manual_array(s, a) ==
    [s EXCEPT !.array = a, !.original_array = a, !.steps = <<>>, !.current_step = 0]

on_speed_change(s, p) == [s EXCEPT !.animation_speed = speed_map[p]]

\* a pause or a reset makes the callbacks queued before it stale (ghost)
MarkStale(s) ==
    [s EXCEPT !.pending = [k \in 1..Len(@) |-> [@[k] EXCEPT !.stale = TRUE]]]

\* a reset or a change of array starts a new count of the engine's calls (ghost)
NewSequence(s) == [s EXCEPT !.engine_calls = 0]

Remove(q, i) == [k \in 1..(Len(q) - 1) |-> IF k < i THEN q[k] ELSE q[k + 1]]

\* ------------------------------------------------------------- actions
Init ==
    /\ algo \in Algorithms
    /\ array \in RandomArrays
    /\ original_array = array
    /\ steps = <<>>
    /\ current_step = 0
    /\ is_sorting = FALSE
    /\ is_playing = FALSE
    /\ animation_speed = DefaultSpeed
    /\ original_speed = None
    /\ buttons = [start |-> "normal", start_text |-> "Start", fast |-> "normal",
                  pause |-> "disabled"]
    /\ pending = <<>>
    /\ run = NoRun
    /\ last_cmd = "init"
    /\ rendered = -1
    /\ scheduled = -1
    /\ effects = {}
    /\ engine_calls = 0
    /\ user_idle = FALSE

\* the commands of the buttons; the handlers guard themselves, and the state
\* of the buttons is kept but does not gate the commands
StartSorting ==
    /\ Len(pending) < MaxPending
    /\ Commit(start_sorting(Self, algo), "start_sorting")

FastSort ==
    /\ Len(pending) < MaxPending
    /\ Commit(fast_sort(Self, algo), "fast_sort")

PauseSorting ==
    /\ TRUE
    /\ Commit(MarkStale(pause_sorting(Self)), "pause_sorting")

ResetSorting ==
    /\ TRUE
    /\ Commit(NewSequence(MarkStale(reset_sorting(Self))), "reset_sorting")

StepForward ==
    /\ TRUE
    /\ Commit(step_forward(Self, algo), "step_forward")

StepBackward ==
    /\ TRUE
    /\ Commit(step_backward(Self), "step_backward")

\* generate_new_array: generate_random_array(size), then draw_array()
GenerateNewArray ==
    \E a \in RandomArrays :
        Commit(NewSequence(set_manual_array(Self, a)), "generate_new_array")

\* apply_array of manual_array_input: set_manual_array(values), then draw_array()
ManualArrayInput ==
    \E a \in ManualArrays :
        Commit(NewSequence(set_manual_array(Self, a)), "manual_array_input")

OnSpeedChange ==
    \E p \in SpeedChoices : Commit(on_speed_change(Self, p), "on_speed_change")

\* the name last_cmd gives to a callback that fires: one queued before a
\* pause or a reset is stale, and "tick_after_pause" when the pause was the
\* last command
TickName(stale) ==
    IF ~stale THEN "tick"
    ELSE IF last_cmd = "pause_sorting" THEN "tick_after_pause"
    ELSE "stale_tick"

StaleTicks == {"stale_tick", "tick_after_pause"}

\* the event loop fires one of the queued animate_sorting callbacks
Tick ==
    \E i \in 1..Len(pending) :
        Commit(animate_sorting([Self EXCEPT !.pending = Remove(@, i)]),
               TickName(pending[i].stale))

Next ==
    \/ StartSorting
    \/ FastSort
    \/ PauseSorting
    \/ ResetSorting
    \/ StepForward
    \/ StepBackward
    \/ GenerateNewArray
    \/ ManualArrayInput
    \/ OnSpeedChange
    \/ Tick

Spec == Init /\ [][Next]_vars

\* ------------------------------------------- playback left to itself
\* the user presses buttons for a while and, at some moment when playback is
\* playing a non-empty sequence, stops: from then on only the callbacks
\* queued by parent_frame.after run. The speed combobox is left alone here:
\* the interval of a queued callback does not decide whether it runs
UserCommand ==
    /\ ~user_idle
    /\ \/ StartSorting
       \/ FastSort
       \/ PauseSorting
       \/ ResetSorting
       \/ StepForward
       \/ StepBackward
       \/ GenerateNewArray
       \/ ManualArrayInput

UserIdles ==
    /\ ~user_idle
    /\ is_sorting /\ is_playing
    /\ steps # <<>>
    /\ user_idle' = TRUE
    /\ UNCHANGED <<algo, array, original_array, steps, current_step, is_sorting,
                   is_playing, animation_speed, original_speed, buttons, pending, run,
                   last_cmd, rendered, scheduled, effects, engine_calls>>

PlayNext ==
    \/ UserCommand
    \/ UserIdles
    \/ Tick

\* the Tk event loop runs every callback queued with after
PlaySpec == Init /\ [][PlayNext]_vars /\ WF_vars(Tick)

\* ---------------------------------------------------- the engines alone
\* a fresh instance holding an input array; the same start for the two
\* specifications of the engines
EngineStart(inputs) ==
    /\ algo \in Algorithms
    /\ array \in inputs
    /\ original_array = array
    /\ steps = <<>>
    /\ current_step = 0
    /\ is_sorting = FALSE
    /\ is_playing = FALSE
    /\ animation_speed = DefaultSpeed
    /\ original_speed = None
    /\ buttons = [start |-> "normal", start_text |-> "Start", fast |-> "normal",
                  pause |-> "disabled"]
    /\ pending = <<>>
    /\ run = NoRun
    /\ last_cmd = "init"
    /\ rendered = -1
    /\ scheduled = -1
    /\ effects = {}
    /\ engine_calls = 0
    /\ user_idle = FALSE

SortInit == EngineStart(Inputs \cup ScenarioArrays)

\* generate_steps() as one call; run keeps the engine state it ended in
\* (its ghost tags tell where each element came from)
GenerateSteps ==
    /\ run.phase = "none"
    /\ run' = [phase |-> "done", st |-> RunTo(algo, array, Unlimited)]
    /\ CommitSelf(generate_steps(Self, algo), "generate_steps")
    /\ UNCHANGED <<algo, user_idle>>

SortNext == GenerateSteps

SortSpec == SortInit /\ [][SortNext]_vars

\* ------------------------------------------- one sort run, step by step
\* generate_steps() observed after every primitive of the engine (an
\* add_step call or a write to the working list)
RunInputs == {a \in Inputs : Len(a) = MinLen} \cup ScenarioArrays

RunInit == EngineStart(RunInputs)

RunFrame ==
    UNCHANGED <<algo, original_array, current_step, is_sorting, is_playing,
                animation_speed, original_speed, buttons, pending, rendered, scheduled,
                effects, user_idle>>

\* self.steps = []; temp_array = self.array.copy()
BeginRun ==
    /\ run.phase = "none"
    /\ run' = [phase |-> "running", st |-> EngineInit(array, 0)]
    /\ last_cmd' = "generate_steps"
    /\ engine_calls' = engine_calls + 1
    /\ UNCHANGED <<array, steps>>
    /\ RunFrame

\* the next primitive of self.sort_algorithm(temp_array)
RunPrimitive ==
    /\ run.phase = "running"
    /\ LET nxt == RunTo(algo, array, run.st.count + 1)
       IN /\ nxt.count = run.st.count + 1
          /\ run' = [phase |-> "running", st |-> nxt]
    /\ UNCHANGED <<array, steps, last_cmd, engine_calls>>
    /\ RunFrame

\* sort_algorithm has returned: self.array = temp_array
EndRun ==
    /\ run.phase = "running"
    /\ RunTo(algo, array, run.st.count + 1).count = run.st.count
    /\ run' = [phase |-> "done", st |-> run.st]
    /\ steps' = StepsOf(run.st)
    /\ array' = Arr(run.st)
    /\ UNCHANGED <<last_cmd, engine_calls>>
    /\ RunFrame

RunNext ==
    \/ BeginRun
    \/ RunPrimitive
    \/ EndRun

RunSpec == RunInit /\ [][RunNext]_vars


\* ================================================================ claims
FinalSnapshot == steps[Len(steps)].array

IsSorted(a) == \A p \in 1..(Len(a) - 1) : a[p] <= a[p + 1]

Count(a, v) == Cardinality({p \in DOMAIN a : a[p] = v})

IsPermutation(a, b) ==
    /\ Len(a) = Len(b)
    /\ \A v \in {a[p] : p \in DOMAIN a} \cup {b[p] : p \in DOMAIN b} :
           Count(a, v) = Count(b, v)

HasDuplicates(a) == \E p, q \in DOMAIN a : p < q /\ a[p] = a[q]

\* C1: for every input array and each of the three engines, the snapshot of
\* the last step recorded by sort_algorithm is in non-decreasing order.
C1_FinalSnapshotSorted == run.phase = "done" => IsSorted(FinalSnapshot)

C1_Witness ==
    /\ run.phase = "done"
    /\ ~IsSorted(original_array)
    /\ Len(original_array) = MaxLen
    /\ IsSorted(FinalSnapshot)

\* C2: for every input array and each of the three engines, the final
\* snapshot is a permutation of the input: same length, same multiset.
C2_FinalSnapshotPermutation ==
    run.phase = "done" => IsPermutation(FinalSnapshot, original_array)

C2_Witness ==
    /\ run.phase = "done"
    /\ HasDuplicates(original_array)
    /\ ~IsSorted(original_array)
    /\ FinalSnapshot # original_array
    /\ IsPermutation(FinalSnapshot, original_array)

\* the ghost tags name, for every position of the final snapshot, the input
\* position its element came from
TagsTrackElements ==
    /\ FinalSnapshot = Arr(run.st)
    /\ Len(run.st.tag) = Len(original_array)
    /\ \A p \in DOMAIN FinalSnapshot : At(original_array, run.st.tag[p]) = FinalSnapshot[p]
    /\ \A p, q \in DOMAIN FinalSnapshot : p # q => run.st.tag[p] # run.st.tag[q]

\* equal elements stand in the final snapshot in the order of the input
EqualsKeepOrder ==
    \A p, q \in DOMAIN FinalSnapshot :
        (p < q /\ FinalSnapshot[p] = FinalSnapshot[q]) => run.st.tag[p] < run.st.tag[q]

\* C3: merge sort is stable: any two equal elements of the input appear in
\* the final snapshot in the same relative order as in the input.
C3_MergeSortStable ==
    (run.phase = "done" /\ algo = "Merge Sort") => (TagsTrackElements /\ EqualsKeepOrder)

C3_Witness ==
    /\ run.phase = "done"
    /\ algo = "Merge Sort"
    /\ \E p, q, r \in DOMAIN original_array :
           /\ p < q /\ q < r
           /\ original_array[p] = original_array[q]
           /\ original_array[r] < original_array[p]
    /\ EqualsKeepOrder

\* the list a recorded step of the run in progress refers to
Snapshot(r, k) == r.st.heap[r.st.steps[k].array]

\* C5: during a sort run the recorded steps are append-only and immutable:
\* a primitive of the engine appends at most one step, whose snapshot equals
\* the working array at the moment of the add_step call, and it changes no
\* step recorded before, neither its metadata nor the list its snapshot is.
C5_StepsAppendOnly ==
    [][(run.phase = "running" /\ run'.phase = "running") =>
            /\ Len(run'.st.steps) \in {Len(run.st.steps), Len(run.st.steps) + 1}
            /\ \A k \in 1..Len(run.st.steps) :
                   /\ run'.st.steps[k] = run.st.steps[k]
                   /\ Snapshot(run', k) = Snapshot(run, k)
            /\ Len(run'.st.steps) = Len(run.st.steps) + 1 =>
                   Snapshot(run', Len(run'.st.steps)) = Arr(run.st)]_vars

\* a step was recorded and the working array has been written since
C5_Witness ==
    /\ run.phase = "running"
    /\ \E k \in 1..Len(run.st.steps) :
           /\ k < Len(run.st.steps)
           /\ Snapshot(run, k) # Arr(run.st)
           /\ Snapshot(run, k) = original_array

\* C6: whatever commands and ticks came before, reset leaves cursor 0, no
\* step sequence, playback idle (not sorting, not playing) and the working
\* array equal to the original array, which it does not change.
C6_ResetRestores ==
    [][last_cmd' = "reset_sorting" =>
            /\ current_step' = 0
            /\ steps' = <<>>
            /\ ~is_sorting'
            /\ ~is_playing'
            /\ array' = original_array
            /\ original_array' = original_array]_vars

\* reset has acted on a playback that had a tick queued
C6_Witness ==
    /\ last_cmd = "reset_sorting"
    /\ pending # <<>>
    /\ array = original_array
    /\ steps = <<>>

\* C7 as stated: while the step sequence is non-empty, 0 <= cursor < N.
C7_CursorBelowLength ==
    steps # <<>> => (0 <= current_step /\ current_step < Len(steps))

\* C7 amended: while the step sequence is non-empty, 0 <= cursor <= N; the
\* tick that renders the last step leaves the cursor at N.
C7_CursorAtMostLength ==
    steps # <<>> => (0 <= current_step /\ current_step <= Len(steps))

\* continuous playback has exhausted the sequence
C7_Witness ==
    /\ steps # <<>>
    /\ current_step = Len(steps)
    /\ ~is_sorting
    /\ last_cmd = "tick"

\* C8 as stated: on a generated sequence step_backward at cursor 0 and
\* step_forward at cursor N-1 leave the cursor, and in every other position
\* each of the two moves it by exactly one.
C8_ClampedOrByOne ==
    [][steps # <<>> =>
            /\ last_cmd' = "step_backward" =>
                   current_step' = IF current_step = 0 THEN 0 ELSE current_step - 1
            /\ last_cmd' = "step_forward" =>
                   current_step' = IF current_step = Len(steps) - 1
                                   THEN current_step ELSE current_step + 1]_vars

\* C8 amended: step_backward at cursor 0 and step_forward at cursor N-1 or N
\* (the position playback ends in) leave the cursor; in every other position
\* each of the two moves it by exactly one.
C8_ClampedAtEnds ==
    [][steps # <<>> =>
            /\ last_cmd' = "step_backward" =>
                   current_step' = IF current_step = 0 THEN 0 ELSE current_step - 1
            /\ last_cmd' = "step_forward" =>
                   current_step' = IF current_step >= Len(steps) - 1
                                   THEN current_step ELSE current_step + 1]_vars

\* step_forward has acted on the cursor that playback left at N
C8_Witness ==
    /\ last_cmd = "step_forward"
    /\ steps # <<>>
    /\ current_step = Len(steps)
    /\ rendered = -1

\* C9: a tick queued before a pause or a reset is a no-op when it fires,
\* whatever was commanded in between: it draws nothing, leaves the cursor
\* and queues no further tick.
C9_StaleTickIsNoOp ==
    [][last_cmd' \in StaleTicks =>
            /\ rendered' = -1
            /\ current_step' = current_step
            /\ Len(pending') = Len(pending) - 1]_vars

\* C10: a tick that fires right after a pause, with no command in between,
\* leaves the cursor and the displayed array and queues no further tick.
C10_PauseHonored ==
    [][(last_cmd = "pause_sorting" /\ last_cmd' \in StaleTicks \cup {"tick"}) =>
            /\ current_step' = current_step
            /\ array' = array
            /\ rendered' = -1
            /\ Len(pending') = Len(pending) - 1]_vars

\* the tick queued before the pause has fired right after it
C10_Witness ==
    /\ last_cmd = "tick_after_pause"
    /\ buttons.start_text = "Resume"
    /\ ~is_playing
    /\ is_sorting
    /\ 0 < current_step /\ current_step < Len(steps)
    /\ pending = <<>>

\* playback paused with steps left: the cursor is frozen on a step to render
Paused == is_sorting /\ ~is_playing /\ steps # <<>> /\ current_step < Len(steps)

\* C11: a start issued on playback paused with steps remaining (the button
\* reads Resume) returns it to playing and auto-advance goes on from the
\* cursor it was paused at: the step at the cursor is drawn, the cursor moves
\* on by one and the next tick is queued, without a reset.
C11_PausedIsResumable ==
    [][(Paused /\ buttons.start_text = "Resume" /\ last_cmd' = "start_sorting") =>
            /\ is_playing'
            /\ is_sorting'
            /\ steps' = steps
            /\ rendered' = current_step
            /\ current_step' = current_step + 1
            /\ scheduled' # -1]_vars

\* playback is playing: a run is on and auto-advance is not paused
Playing == is_sorting /\ is_playing

\* C12: start and fast_start issued while playback is playing are no-ops:
\* cursor, step sequence, displayed array, playback flags, interval and
\* stored override are unchanged, nothing is drawn and no tick is queued.
C12_RedundantStartIsNoOp ==
    [][(Playing /\ last_cmd' \in {"start_sorting", "fast_sort"}) =>
            /\ current_step' = current_step
            /\ steps' = steps
            /\ array' = array
            /\ is_sorting' /\ is_playing'
            /\ animation_speed' = animation_speed
            /\ original_speed' = original_speed
            /\ pending' = pending
            /\ rendered' = -1
            /\ scheduled' = -1]_vars

\* fast_start was issued on a run begun by start: no override is stored and
\* the interval is the one of the run
C12_Witness ==
    /\ last_cmd = "fast_sort"
    /\ Playing
    /\ original_speed = None
    /\ animation_speed = DefaultSpeed
    /\ pending # <<>>

\* sq is a full step sequence of array a: it starts from a and ends sorted
FullSequence(sq, a) ==
    /\ Len(sq) > 1
    /\ sq[1].array = a
    /\ IsSorted(sq[Len(sq)].array)
    /\ IsPermutation(sq[Len(sq)].array, a)

\* C13 as stated: when no steps exist, step_forward and step_backward both
\* run the engine to completion before moving the cursor.
C13_NavigationGenerates ==
    [][(steps = <<>> /\ last_cmd' \in {"step_forward", "step_backward"}) =>
            FullSequence(steps', array)]_vars

\* C13 amended: when no steps exist, step_forward runs the engine to
\* completion (once) and then moves the cursor to step 1, which it draws;
\* step_backward generates nothing and leaves sequence, cursor and array.
C13_ForwardGenerates ==
    [][steps = <<>> =>
            /\ last_cmd' = "step_forward" =>
                   /\ FullSequence(steps', array)
                   /\ engine_calls' = engine_calls + 1
                   /\ current_step' = 1
                   /\ rendered' = 1
            /\ last_cmd' = "step_backward" =>
                   /\ steps' = <<>>
                   /\ engine_calls' = engine_calls
                   /\ current_step' = 0
                   /\ array' = array
                   /\ rendered' = -1]_vars

\* step_forward has generated the sequence of a playback never started
C13_Witness ==
    /\ last_cmd = "step_forward"
    /\ "generated" \in effects
    /\ FullSequence(steps, original_array)
    /\ engine_calls = 1
    /\ current_step = 1
    /\ rendered = 1
    /\ ~is_sorting /\ ~is_playing
    /\ pending = <<>>
    /\ buttons.start_text = "Start"

\* C14: whatever commands and tick firings came before, no index error is
\* reached: the cursor stays within 0..N (0 on an empty sequence), and a
\* handler that draws reads the step sequence at an index within 0..N-1 and
\* displays the snapshot of that step.
C14_RendersWithinBounds ==
    /\ 0 <= current_step /\ current_step <= Len(steps)
    /\ rendered # -1 =>
           /\ 0 <= rendered /\ rendered < Len(steps)
           /\ array = At(steps, rendered).array
           /\ current_step \in {rendered, rendered + 1}

\* a tick has drawn the last step and left the cursor behind it
C14_Witness ==
    /\ last_cmd = "tick"
    /\ steps # <<>>
    /\ rendered = Len(steps) - 1
    /\ current_step = Len(steps)
    /\ array = At(steps, rendered).array

\* C15: fast_start stores the interval configured before it and nothing
\* changes what is stored; when the fast run ends (the tick that finds the
\* sequence exhausted, a pause or a reset) the interval is that stored speed
\* again and nothing remains stored; outside a playing run nothing is stored.
C15_FastSpeedRestored ==
    [][/\ (original_speed = None /\ original_speed' # None) =>
              (last_cmd' = "fast_sort" /\ original_speed' = <<animation_speed>>)
       /\ (original_speed # None /\ original_speed' # None) =>
              original_speed' = original_speed
       /\ (original_speed # None /\
           (last_cmd' \in {"pause_sorting", "reset_sorting"} \/ ~is_sorting')) =>
              /\ animation_speed' = original_speed[1]
              /\ original_speed' = None
       /\ original_speed' # None => (is_sorting' /\ is_playing')]_vars

\* a fast run begun at the Slow preset has run to its end and the tick that
\* ended it took the 1500 ms back
C15_Witness ==
    /\ last_cmd = "tick"
    /\ "restored" \in effects
    /\ ~is_sorting
    /\ steps # <<>>
    /\ current_step = Len(steps)
    /\ animation_speed = speed_map["Slow"]
    /\ original_speed = None

\* C16: during a fast run (while the speed stored by fast_start is held)
\* every tick is queued with the fixed interval of 50 ms, whatever preset
\* was chosen before or during the run.
C16_FastTicksAtFixedInterval ==
    (original_speed # None /\ scheduled # -1) => scheduled = FastSpeed

\* a queued callback fires in this step
TickFires == last_cmd' \in StaleTicks \cup {"tick"}

\* C17 as stated: the tick that renders the last step ends the run within
\* that same tick and queues nothing; every other tick while playing queues
\* exactly one next tick.
C17_LastTickFinishes ==
    [][(TickFires /\ is_playing /\ current_step < Len(steps)) =>
            IF current_step = Len(steps) - 1
            THEN rendered' = current_step /\ ~is_sorting' /\ scheduled' = -1
            ELSE scheduled' # -1 /\ Len(pending') = Len(pending)]_vars

\* C17 amended: a tick that fires while playing with the cursor below N (the
\* last step included) renders the step at the cursor, advances the cursor by
\* one and queues exactly one next tick, leaving is_sorting; the tick that
\* finds the cursor at N renders nothing, ends the run (no longer sorting)
\* and queues nothing.
C17_NextTickFinishes ==
    [][(TickFires /\ is_playing) =>
            IF current_step < Len(steps)
            THEN /\ rendered' = current_step
                 /\ current_step' = current_step + 1
                 /\ scheduled' = animation_speed
                 /\ Len(pending') = Len(pending)
                 /\ is_sorting' = is_sorting
            ELSE /\ rendered' = -1
                 /\ current_step' = current_step
                 /\ scheduled' = -1
                 /\ Len(pending') = Len(pending) - 1
                 /\ ~is_sorting']_vars

\* the tick after the one that drew the last step has ended the run
C17_Witness ==
    /\ last_cmd = "tick"
    /\ steps # <<>>
    /\ current_step = Len(steps)
    /\ is_playing /\ ~is_sorting
    /\ rendered = -1
    /\ scheduled = -1
    /\ pending = <<>>
    /\ buttons.pause = "disabled"

\* the commands that discard the sequence: reset and the two array changes
Discards == {"reset_sorting", "generate_new_array", "manual_array_input"}

\* C18: once generated, the step sequence is fixed: start, fast_start, pause,
\* step_forward, step_backward, set-speed and tick firings leave its length
\* and every record unchanged and do not run the engine, and the engine runs
\* at most once between two consecutive resets or array changes.
C18_SequenceFixed ==
    [][/\ (steps # <<>> /\ last_cmd' \notin Discards) =>
              (steps' = steps /\ "generated" \notin effects')
       /\ engine_calls' <= 1]_vars

\* step_forward has moved on a sequence that an earlier command generated
C18_Witness ==
    /\ last_cmd = "step_forward"
    /\ "generated" \notin effects
    /\ engine_calls = 1
    /\ current_step >= 2
    /\ rendered = current_step

\* C19: a step sequence never outlives its input: whenever the sequence is
\* non-empty its first snapshot is the current original array, whatever the
\* playback state in which an array change or a reset was issued.
C19_SequenceOfCurrentArray ==
    steps # <<>> => steps[1].array = original_array

\* a sequence generated for the array entered by hand, after the one the
\* instance started with
C19_Witness ==
    /\ steps # <<>>
    /\ original_array \in ManualArrays
    /\ original_array \notin RandomArrays
    /\ steps[1].array = original_array
    /\ current_step > 0

\* the run of quicksort on the array [5,2,8,1,9] has ended
QuicksortScenarioDone ==
    /\ run.phase = "done"
    /\ algo = "Quick Sort"
    /\ original_array = <<5, 2, 8, 1, 9>>

PivotNamed == <<"Pivot selected: {} (index: {})", 9, 4>>

\* C20 as stated: quicksort on [5,2,8,1,9] ends in [1,2,5,8,9] and the first
\* recorded step's description names pivot value 9 at index 4.
C20_FirstStepNamesPivot ==
    QuicksortScenarioDone =>
        /\ FinalSnapshot = <<1, 2, 5, 8, 9>>
        /\ steps[1].description = PivotNamed

\* C20 amended: quicksort on [5,2,8,1,9] ends in [1,2,5,8,9]; the first two
\* recorded steps are the initial state and the range [0, 4] and name no
\* pivot, and the third, the first to name one, names value 9 at index 4.
C20_ThirdStepNamesPivot ==
    QuicksortScenarioDone =>
        /\ FinalSnapshot = <<1, 2, 5, 8, 9>>
        /\ steps[1].description = <<"Initial state - Quick Sort algorithm starting">>
        /\ steps[2].description = <<"Quick Sort - Range: [{}, {}]", 0, 4>>
        /\ steps[1].pivot_idx = -1 /\ steps[2].pivot_idx = -1
        /\ steps[3].description = PivotNamed
        /\ steps[3].pivot_idx = 4
        /\ steps[3].array = <<5, 2, 8, 1, 9>>

C20_Witness ==
    /\ QuicksortScenarioDone
    /\ Len(steps) > 3
    /\ FinalSnapshot = <<1, 2, 5, 8, 9>>
    /\ steps[3].description = PivotNamed

\* the run of merge sort on the array [5,2,8,1,9] has ended
MergeSortScenarioDone ==
    /\ run.phase = "done"
    /\ algo = "Merge Sort"
    /\ original_array = <<5, 2, 8, 1, 9>>

\* the recorded steps that announce the division of the range left..right
DividingSteps(left, right) ==
    {k \in DOMAIN steps :
        /\ steps[k].description[1] = "Dividing array: Left[{}:{}], Right[{}:{}]"
        /\ steps[k].left_subarray # None /\ steps[k].right_subarray # None
        /\ steps[k].left_subarray[1] = left
        /\ steps[k].right_subarray[2] = right}

\* C21 as stated: merge sort on [5,2,8,1,9] records a dividing step for
\* left=0, right=4 that tags left-range (0,1) and right-range (2,4).
C21_DividingTagsLowMid ==
    MergeSortScenarioDone =>
        \E k \in DividingSteps(0, 4) :
            steps[k].left_subarray = <<0, 1>> /\ steps[k].right_subarray = <<2, 4>>

\* C21 amended: merge sort on [5,2,8,1,9] records one dividing step for
\* left=0, right=4, and it tags left-range (0,2) and right-range (3,4).
C21_DividingTagsMid ==
    MergeSortScenarioDone =>
        /\ Cardinality(DividingSteps(0, 4)) = 1
        /\ \A k \in DividingSteps(0, 4) :
               /\ steps[k].left_subarray = <<0, 2>>
               /\ steps[k].right_subarray = <<3, 4>>
               /\ steps[k].description =
                      <<"Dividing array: Left[{}:{}], Right[{}:{}]", 0, 2, 3, 4>>
               /\ steps[k].array = <<5, 2, 8, 1, 9>>

C21_Witness ==
    /\ MergeSortScenarioDone
    /\ \E k \in DividingSteps(0, 4) : steps[k].left_subarray = <<0, 2>>
    /\ FinalSnapshot = <<1, 2, 5, 8, 9>>

\* the run of selection sort on the array [3,3,1] has ended
SelectionSortScenarioDone ==
    /\ run.phase = "done"
    /\ algo = "Selection Sort"
    /\ original_array = <<3, 3, 1>>

\* the recorded steps that announce a swap
SwappingSteps ==
    {k \in DOMAIN steps :
        steps[k].description[1] = "Swapping: {} (position {}) with {} (position {})"}

\* C22: selection sort on [3,3,1] ends in [1,3,3] after exactly one swap, of
\* positions 0 and 2 in the first round: the 3 of input index 0 ends at index
\* 2, behind the 3 of input index 1, which stays at index 1 (not stable).
C22_SelectionSortScenario ==
    SelectionSortScenarioDone =>
        /\ FinalSnapshot = <<1, 3, 3>>
        /\ Cardinality(SwappingSteps) = 1
        /\ \A k \in SwappingSteps :
               /\ steps[k].current_position = 0
               /\ steps[k].minimum_index = 2
               /\ steps[k].sorted_indices = <<>>
               /\ steps[k].array = <<3, 3, 1>>
               /\ steps[k + 1].array = <<1, 3, 3>>
        /\ TagsTrackElements
        /\ run.st.tag = <<2, 1, 0>>
        /\ ~EqualsKeepOrder

C22_Witness ==
    /\ SelectionSortScenarioDone
    /\ SwappingSteps # {}
    /\ FinalSnapshot = <<1, 3, 3>>
    /\ run.st.tag[3] = 0

\* C23: quicksort and selection sort are not stable: quicksort on [2,2,1]
\* and selection sort on [3,3,1] each end with two equal elements in the
\* opposite order to the input, and on every input an engine that reorders
\* equal elements is one whose metadata says stable = False.
C23_NotStable ==
    run.phase = "done" =>
        /\ TagsTrackElements
        /\ (algo = "Quick Sort" /\ original_array = <<2, 2, 1>>) => ~EqualsKeepOrder
        /\ (algo = "Selection Sort" /\ original_array = <<3, 3, 1>>) => ~EqualsKeepOrder
        /\ ~EqualsKeepOrder => ~stable(algo)

\* quicksort has put the 2 of input index 0 behind the 2 of input index 1
C23_Witness ==
    /\ run.phase = "done"
    /\ algo = "Quick Sort"
    /\ original_array = <<2, 2, 1>>
    /\ FinalSnapshot = <<1, 2, 2>>
    /\ run.st.tag = <<2, 1, 0>>

\* the recorded steps whose description starts with the template d
StepsNamed(d) == {k \in DOMAIN steps : steps[k].description[1] = d}

PartitionCompleted == StepsNamed("Partition completed. Pivot position: {}")

\* the "Quick Sort - Range: [low, high]" step of the quicksort call that made
\* the partition of step k: the latest one before k
RangeStepOf(k) ==
    CHOOSE j \in StepsNamed("Quick Sort - Range: [{}, {}]") :
        /\ j < k
        /\ \A h \in StepsNamed("Quick Sort - Range: [{}, {}]") : h < k => h <= j

\* step k, a "partition completed" step of the range low..high, is as C24 says
PartitionedAt(k, low, high) ==
    LET p == steps[k].pivot_idx
        a == steps[k].array
    IN /\ low <= p /\ p <= high
       /\ steps[k].description[2] = p
       /\ \A q \in low..(p - 1) : At(a, q) <= At(a, p)
       /\ \A q \in (p + 1)..high : At(a, q) > At(a, p)
       /\ steps[k].left_part = IF p > low THEN <<low, p - 1>> ELSE None
       /\ steps[k].right_part = IF p < high THEN <<p + 1, high>> ELSE None

\* C24: every "partition completed" step of a quicksort run tags a pivot
\* position p within its range low..high, with the elements at low..p-1 at
\* most the pivot value and those at p+1..high greater; the left range
\* (low, p-1) is tagged exactly when p > low and the right range (p+1, high)
\* exactly when p < high, and is absent otherwise.
C24_PartitionCompleted ==
    (run.phase = "done" /\ algo = "Quick Sort") =>
        /\ PartitionCompleted # {}
        /\ \A k \in PartitionCompleted :
               LET r == steps[RangeStepOf(k)].description
               IN PartitionedAt(k, r[2], r[3])

\* a run with a partition that tags both ranges and one that tags none to
\* the right, on an input with values equal to a pivot
C24_Witness ==
    /\ run.phase = "done"
    /\ algo = "Quick Sort"
    /\ HasDuplicates(original_array)
    /\ \E k \in PartitionCompleted :
           steps[k].left_part # None /\ steps[k].right_part # None
    /\ \E k \in PartitionCompleted :
           /\ steps[k].right_part = None
           /\ \E q \in 0..(steps[k].pivot_idx - 1) :
                  At(steps[k].array, q) = At(steps[k].array, steps[k].pivot_idx)

Dividing == StepsNamed("Dividing array: Left[{}:{}], Right[{}:{}]")

\* a "dividing" step of the range left..right is recorded between steps lo and hi
DividedBetween(lo, hi, left, right) ==
    \E k \in Dividing :
        /\ lo < k /\ k < hi
        /\ steps[k].left_subarray[1] = left
        /\ steps[k].right_subarray[2] = right

\* step k, a "dividing" step, is as C25 says
DividedAt(k) ==
    LET left == steps[k].left_subarray[1]
        mid == steps[k].left_subarray[2]
        right == steps[k].right_subarray[2]
    IN /\ left < right
       /\ mid = (left + right) \div 2
       /\ steps[k].right_subarray[1] = mid + 1
       /\ left <= mid /\ mid + 1 <= right
       /\ steps[k].description =
              <<"Dividing array: Left[{}:{}], Right[{}:{}]", left, mid, mid + 1, right>>
       /\ \E sr, mg \in DOMAIN steps :
              /\ k + 1 < sr /\ sr < mg
              /\ steps[k + 1].description =
                     <<"Sorting left subarray: [{}:{}]", left, mid>>
              /\ steps[sr].description =
                     <<"Sorting right subarray: [{}:{}]", mid + 1, right>>
              /\ steps[mg].description =
                     <<"Merging sorted subarrays: [{}:{}] and [{}:{}]",
                       left, mid, mid + 1, right>>
              /\ left < mid => DividedBetween(k + 1, sr, left, mid)
              /\ mid + 1 < right => DividedBetween(sr, mg, mid + 1, right)
              /\ \A h \in Dividing :
                     (k < h /\ h < mg) =>
                         /\ left <= steps[h].left_subarray[1]
                         /\ steps[h].right_subarray[2] <= right
                         /\ h < sr <=> steps[h].right_subarray[2] <= mid

\* C25: every merge sort call on a range with left < right records a
\* "dividing" step that tags (left, mid) and (mid+1, right) with
\* mid = floor((left+right)/2): two non-empty, disjoint ranges that cover
\* left..right; the left half is sorted first, then the right half, then
\* the two are merged.
C25_DividingHalves ==
    (run.phase = "done" /\ algo = "Merge Sort") =>
        /\ DividedBetween(0, Len(steps), 0, Len(original_array) - 1)
        /\ \A k \in Dividing : DividedAt(k)

\* a run on an array of odd length, whose halves differ in length and are
\* both divided again
C25_Witness ==
    /\ run.phase = "done"
    /\ algo = "Merge Sort"
    /\ Len(original_array) = 5
    /\ \E k \in Dividing :
           /\ steps[k].left_subarray = <<0, 2>>
           /\ steps[k].right_subarray = <<3, 4>>
    /\ Cardinality(Dividing) = 4

MergeCompleted == StepsNamed("Merge completed for range [{}:{}]")

\* the "Created temp arrays" step of the merge that step k completes: the
\* latest one before k, recorded before the merge writes anything
MergeBeginOf(k) ==
    CHOOSE b \in StepsNamed("Created temp arrays: Left{}, Right{}") :
        /\ b < k
        /\ \A c \in StepsNamed("Created temp arrays: Left{}, Right{}") :
               c < k => c <= b

\* step k, a "merge completed" step, is as C26 says
MergedAt(k) ==
    LET left == steps[k].merging_range[1]
        right == steps[k].merging_range[2]
        after_merge == steps[k].array
        before_merge == steps[MergeBeginOf(k)].array
    IN /\ steps[MergeBeginOf(k)].left_subarray[1] = left
       /\ steps[MergeBeginOf(k)].right_subarray[2] = right
       /\ steps[k].description = <<"Merge completed for range [{}:{}]", left, right>>
       /\ IsSorted(list_slice(after_merge, left, right + 1))
       /\ IsPermutation(list_slice(after_merge, left, right + 1),
                        list_slice(before_merge, left, right + 1))
       /\ \A p \in 0..(Len(after_merge) - 1) :
              (p < left \/ p > right) => At(after_merge, p) = At(before_merge, p)

\* C26: in the snapshot of every merge sort "merge completed" step for the
\* range left..right, the elements at left..right are in non-decreasing
\* order and are a permutation of the elements that were at left..right when
\* the merge began, and every position outside left..right is as it was
\* when the merge began.
C26_MergeCompleted ==
    (run.phase = "done" /\ algo = "Merge Sort") =>
        /\ MergeCompleted # {}
        /\ \A k \in MergeCompleted : MergedAt(k)

\* a merge of a proper sub-range that moves elements, with unequal elements
\* outside the range
C26_Witness ==
    /\ run.phase = "done"
    /\ algo = "Merge Sort"
    /\ \E k \in MergeCompleted :
           LET left == steps[k].merging_range[1]
               right == steps[k].merging_range[2]
           IN /\ right - left + 1 < Len(steps[k].array)
              /\ list_slice(steps[k].array, left, right + 1) #
                     list_slice(steps[MergeBeginOf(k)].array, left, right + 1)
              /\ \E p \in 0..(Len(steps[k].array) - 1) :
                     /\ p > right
                     /\ At(steps[k].array, p) < At(steps[k].array, right)

MarkedSorted == StepsNamed("Position {} is now sorted. Element {} is in correct place")

\* the number of positions marked as sorted when step k is recorded
FinalizedAt(k) == Cardinality({m \in MarkedSorted : m <= k})

\* C27: in every selection sort step the sorted indices of the metadata are
\* exactly the prefix 0..k-1 of the positions finalized so far (all indices
\* in the final step), they never shrink from one step to the next, and in
\* the step's snapshot those positions hold the values they have in the
\* final sorted snapshot.
C27_SortedPrefix ==
    (run.phase = "done" /\ algo = "Selection Sort") =>
        /\ \A k \in DOMAIN steps :
               /\ steps[k].sorted_indices = Range0(FinalizedAt(k))
               /\ \A p \in 0..(FinalizedAt(k) - 1) :
                      At(steps[k].array, p) = At(FinalSnapshot, p)
               /\ k > 1 =>
                      /\ Len(steps[k - 1].sorted_indices) <= Len(steps[k].sorted_indices)
                      /\ \A q \in DOMAIN steps[k - 1].sorted_indices :
                             steps[k].sorted_indices[q] = steps[k - 1].sorted_indices[q]
        /\ steps[Len(steps)].sorted_indices = Range0(Len(original_array))
        /\ IsSorted(FinalSnapshot)

\* a run with a step whose sorted prefix is neither empty nor everything,
\* recorded while the rest of the snapshot is still out of place
C27_Witness ==
    /\ run.phase = "done"
    /\ algo = "Selection Sort"
    /\ SwappingSteps # {}
    /\ \E k \in DOMAIN steps :
           /\ Len(steps[k].sorted_indices) >= 2
           /\ Len(steps[k].sorted_indices) < Len(original_array)
           /\ steps[k].array # FinalSnapshot

\* b is a with the elements of exactly two positions exchanged
IsExchange(a, b) ==
    /\ Len(a) = Len(b)
    /\ \E p, q \in DOMAIN a :
           /\ p < q
           /\ a[p] # a[q]
           /\ b[p] = a[q] /\ b[q] = a[p]
           /\ \A r \in DOMAIN a : r \notin {p, q} => b[r] = a[r]

\* C30: for quicksort and selection sort every snapshot of the step
\* sequence, not only the last, is a permutation of the input array, and
\* two consecutive snapshots are equal or differ by the exchange of exactly
\* two positions.
C30_SnapshotsExchange ==
    (run.phase = "done" /\ algo \in {"Quick Sort", "Selection Sort"}) =>
        /\ steps # <<>>
        /\ \A k \in DOMAIN steps :
               /\ IsPermutation(steps[k].array, original_array)
               /\ k > 1 =>
                      \/ steps[k].array = steps[k - 1].array
                      \/ IsExchange(steps[k - 1].array, steps[k].array)

\* a run with two different exchanges between consecutive snapshots
C30_Witness ==
    /\ run.phase = "done"
    /\ algo \in {"Quick Sort", "Selection Sort"}
    /\ HasDuplicates(original_array)
    /\ \E k, h \in DOMAIN steps :
           /\ 1 < k /\ k < h
           /\ IsExchange(steps[k - 1].array, steps[k].array)
           /\ IsExchange(steps[h - 1].array, steps[h].array)
           /\ steps[h].array # steps[k - 1].array

\* C29: whenever playback is not in the sorting state, the auto-advance
\* interval is one of the five presets 2000, 1500, 1000, 500 or 200 ms and
\* no fast-forward override is stored; the 50 ms of fast-forward is never
\* left as the configured speed and never captured as the speed to restore.
C29_FastSpeedNeverLeaks ==
    /\ ~is_sorting =>
           /\ animation_speed \in {2000, 1500, 1000, 500, 200}
           /\ original_speed = None
    /\ original_speed # <<FastSpeed>>

\* a fast-forward run has just finished, or was just reset, and gave back a
\* speed the user had picked
C29_Witness ==
    /\ ~is_sorting
    /\ "restored" \in effects
    /\ animation_speed \in {1500, 200}
    /\ original_speed = None

\* C28: continuous playback completes. Once start or fast_start has put
\* playback in Playing on a non-empty sequence, if the user issues no further
\* command and every queued tick eventually fires, then every step from the
\* cursor to the last is rendered once, in increasing index order (each tick
\* renders the step at the cursor and moves the cursor on by one, until the
\* cursor is past the last step), and playback eventually leaves the sorting
\* state.
C28_PlaybackCompletes ==
    /\ [][user_idle =>
             /\ steps' = steps
             /\ IF current_step < Len(steps)
                THEN /\ rendered' = current_step
                     /\ current_step' = current_step + 1
                     /\ is_sorting'
                ELSE /\ rendered' = -1
                     /\ current_step' = current_step
                     /\ ~is_sorting']_vars
    /\ (user_idle /\ is_sorting) ~> (~is_sorting /\ current_step = Len(steps))

\* playback left to itself has drawn its last step and has finished
C28_Witness ==
    /\ user_idle
    /\ ~is_sorting
    /\ steps # <<>>
    /\ current_step = Len(steps)
    /\ array = FinalSnapshot
    /\ last_cmd \in StaleTicks \cup {"tick"}

====
